---- MODULE Spec2Model ----
(***************************************************************************)
(* A model of iptv_pro.py and iptv_collector.py: the channel store of     *)
(* IPTVSystem (_add_channels), the EPG index of EPGManager (update_epg,    *)
(* _parse_epg, _download_epg), the EPG matcher (match_channel, _similar,   *)
(* IPTVSystem._match_epg), the playlist parser (M3UProcessor.parse) and    *)
(* the pipeline (IPTVSystem.process, _process_source).                     *)
(*                                                                         *)
(* Python values are modelled as follows.                                  *)
(*   str    a sequence of one-character strings, <<"a", "b">>              *)
(*   None   the record PyNone                                              *)
(*   list   a sequence                                                     *)
(*   dict   a sequence of <<key, value>> pairs in insertion order (Python  *)
(*          dicts iterate in insertion order), with the Dict* operators    *)
(*   an exception leaving a method is a record [raised |-> "<Type>"]       *)
(***************************************************************************)
EXTENDS Integers, Sequences, FiniteSets, TLC

VARIABLES
    CONFIG,       \* the module-level CONFIG dict (iptv_pro.py:21)
    now,          \* time.time(), in clock ticks
    channels,     \* IPTVSystem.channels
    ingested,     \* history: every EnhancedChannel handed to _add_channels, in order
    epg_data,     \* EPGManager.epg_data
    last_update,  \* EPGManager.last_update
    cache,        \* the files of EPGManager.cache_dir, by provider
    lastCall,     \* history: what the latest update_epg call did
    prevCall,     \* history: what the update_epg call before it did
    ncalls,       \* history: the number of update_epg calls so far
    match_arg,    \* history: the argument of the latest match_channel call
    match_res,    \* history: what the latest match_channel call returned or raised
    playlist,     \* the playlist text handed to M3UProcessor.parse, line by line
    parse_res,    \* history: what the latest M3UProcessor.parse call returned or raised
    pc,           \* where IPTVSystem.process() is
    futures,      \* the futures of process(): one per submitted source
    process_exc   \* the exception that left process(), "" when none

vars == <<CONFIG, now, channels, ingested, epg_data, last_update, cache,
          lastCall, prevCall, ncalls, match_arg, match_res,
          playlist, parse_res, pc, futures, process_exc>>

\* the state of M3UProcessor.parse and of IPTVSystem.process()
parser_vars == <<playlist, parse_res>>
process_vars == <<pc, futures, process_exc>>

----------------------------------------------------------------------------
(* Bounds of the model.                                                    *)

\* the longest history of records handed to _add_channels
MaxIngest == 3
\* the longest list one _add_channels call is given
MaxBatch == 2
\* metadata['quality'] is 0, 1 or MaxQuality
MaxQuality == 3

----------------------------------------------------------------------------
(* Python values.                                                          *)

PyNone == [t |-> "None"]
PyStr(s) == [t |-> "str", v |-> s]
PyList(l) == [t |-> "list", v |-> l]

\* an Optional[Dict]: None, or a dict
NoEpg == [found |-> FALSE, value |-> <<>>]
SomeEpg(d) == [found |-> TRUE, value |-> d]

Range(s) == {s[i] : i \in DOMAIN s}

(* dict: a sequence of <<key, value>> pairs, keys distinct.                *)
EmptyDict == <<>>
DictKeys(d) == {d[i][1] : i \in DOMAIN d}
DictHas(d, k) == k \in DictKeys(d)
DictGet(d, k) == d[CHOOSE i \in DOMAIN d : d[i][1] = k][2]
\* d[k] = v: an existing key keeps its place, a new key goes last
DictSet(d, k, v) ==
    IF DictHas(d, k)
    THEN [i \in DOMAIN d |-> IF d[i][1] = k THEN <<k, v>> ELSE d[i]]
    ELSE Append(d, <<k, v>>)
\* dict.get(k, default)
DictGetOr(d, k, default) == IF DictHas(d, k) THEN DictGet(d, k) ELSE default
\* the dict as a mapping, its order forgotten
DictMap(d) == [k \in DictKeys(d) |-> DictGet(d, k)]

----------------------------------------------------------------------------
(* Strings of the model.                                                   *)

Url1 == <<"h", ":", "1">>
Url2 == <<"h", ":", "2">>
SrcA == <<"A">>
SrcB == <<"B">>
DefaultGroup == <<"N", "G">>     \* '未分组'
DefaultSource == <<"u", "n", "k">>   \* 'unknown'

----------------------------------------------------------------------------
(* EnhancedChannel and the channel store.                                  *)

\* hashlib.md5(url.encode()).hexdigest(): a digest, distinct for the
\* distinct urls of the model
md5hex(s) == <<"md5", s>>

\* EnhancedChannel.__init__(raw_data), raw_data a dict, built at time t
EnhancedChannel(raw_data, t) ==
    [id |-> md5hex(DictGet(raw_data, "url")),
     tvg_id |-> DictGetOr(raw_data, "tvg-id", <<>>),
     name |-> DictGetOr(raw_data, "name", <<>>),
     group |-> DictGetOr(raw_data, "group", DefaultGroup),
     url |-> DictGet(raw_data, "url"),
     epg |-> NoEpg,
     metadata |-> [source |-> DictGetOr(raw_data, "source", DefaultSource),
                   quality |-> DictGetOr(raw_data, "quality", 0),
                   last_checked |-> t]]

\* a mutant of add_one: a record of equal quality replaces the stored one
add_one_ge(chans, chan) ==
    IF ~DictHas(chans, chan.id)
       \/ chan.metadata.quality >= DictGet(chans, chan.id).metadata.quality
    THEN DictSet(chans, chan.id, chan)
    ELSE chans

\* a mutant of add_one: the quality is not compared, the last record wins
add_one_last(chans, chan) == DictSet(chans, chan.id, chan)

\* a mutant of add_one: a stored identity is never replaced
add_one_first(chans, chan) ==
    IF ~DictHas(chans, chan.id) THEN DictSet(chans, chan.id, chan) ELSE chans

\* one iteration of the loop of _add_channels
add_one(chans, chan) ==
    IF ~DictHas(chans, chan.id)
       \/ chan.metadata.quality > DictGet(chans, chan.id).metadata.quality
    THEN DictSet(chans, chan.id, chan)
    ELSE chans

\* a mutant of add_channels: only the first channel of the list is added
add_channels_head_only(chans, new_channels) ==
    IF new_channels = <<>> THEN chans ELSE add_one(chans, Head(new_channels))

\* IPTVSystem._add_channels(new_channels), from the store chans
RECURSIVE add_channels(_, _)
add_channels(chans, new_channels) ==
    IF new_channels = <<>> THEN chans
    ELSE add_channels(add_one(chans, Head(new_channels)), Tail(new_channels))

\* the raw_data dicts of the model: a url, a source, with or without a quality
RawRecords ==
    {<<<<"url", u>>, <<"source", s>>>> : u \in {Url1, Url2}, s \in {SrcA, SrcB}}
    \cup {<<<<"url", u>>, <<"source", s>>, <<"quality", q>>>> :
              u \in {Url1, Url2}, s \in {SrcA, SrcB}, q \in {0, 1, MaxQuality}}

\* the lists of k EnhancedChannel objects built from them
Batches(k) == [1..k -> {EnhancedChannel(r, now) : r \in RawRecords}]

\* a call of _add_channels with a non-empty list (process() calls it only
\* with the non-empty result of a source)
AddChannels ==
    /\ Len(ingested) < MaxIngest
    /\ \E k \in 1..MaxBatch :
          /\ Len(ingested) + k <= MaxIngest
          /\ \E batch \in Batches(k) :
                /\ channels' = add_channels(channels, batch)
                /\ ingested' = ingested \o batch
    /\ UNCHANGED <<CONFIG, now, epg_data, last_update, cache, lastCall,
                   prevCall, ncalls, match_arg, match_res>>
    /\ UNCHANGED <<parser_vars, process_vars>>

----------------------------------------------------------------------------
(* CONFIG.                                                                 *)

\* CONFIG["epg"]["cache_ttl"] in clock ticks (86400 seconds in the source)
TtlTicks == 2
\* the clock runs from TtlTicks to TtlTicks + MaxTicks
MaxTicks == 3
\* the number of CONFIG["epg"]["providers"]
NumProviders == 2
\* the number of update_epg calls in a run
MaxCalls == 2

ProviderUrl(i) == <<"e", ":", i>>
ProviderList == [i \in 1..NumProviders |-> ProviderUrl(i)]

EpgSection == [providers |-> ProviderList, cache_ttl |-> TtlTicks]
IptvSection == [max_workers |-> 8]

\* the CONFIG literal of the source: "iptv" and "epg" are keys of
\* CONFIG["sources"], not of CONFIG
ShippedCONFIG ==
    [sources |-> [iptv |-> IptvSection, epg |-> EpgSection],
     matching |-> [fuzzy_match |-> TRUE,
                   priority |-> <<"tvg-id", "tvg-name", "channel-name">>],
     output |-> [epg_strategy |-> "merge"]]

\* CONFIG as update_epg and process read it, CONFIG["epg"] and CONFIG["iptv"]
\* present: what a program importing the module has to set before it calls
\* them, with the fuzzy_match and epg_strategy of its choice
PatchedCONFIG(fuzzy, strategy) ==
    [sources |-> ShippedCONFIG.sources,
     matching |-> [fuzzy_match |-> fuzzy,
                   priority |-> ShippedCONFIG.matching.priority],
     output |-> [epg_strategy |-> strategy],
     epg |-> EpgSection,
     iptv |-> IptvSection]

----------------------------------------------------------------------------
(* Results of methods that can raise.                                      *)

Ok(v) == [raised |-> "", value |-> v]
Raise(e) == [raised |-> e, value |-> PyNone]

----------------------------------------------------------------------------
(* EPG provider documents and EPGManager._parse_epg.                       *)

\* the text of a start or stop attribute: in the format
\* '%Y%m%d%H%M%S %z' (local time and offset), or not
StampText(l, z) == [wf |-> TRUE, local |-> l, tz |-> z]
BadStampText == [wf |-> FALSE]

\* datetime.strptime(text, '%Y%m%d%H%M%S %z').isoformat()
isoformat(text) == <<"iso", text.local, text.tz>>

Key1 == <<"c", "1">>
Key2 == <<"c", "2">>
NameCCTV1 == <<"C", "C", "T", "V", " ", "1">>
NameCCTV2 == <<"C", "C", "T", "V", "2">>
TitleNews == <<"n">>

ChannelElem(id, names) == [id |-> id, display_names |-> names, icons |-> <<>>]
ProgrammeElem(chan, start, stop) ==
    [channel |-> chan, start |-> start, stop |-> stop,
     title |-> TitleNews, desc |-> <<>>, category |-> <<>>]

\* a document: the tv:channel and the tv:programme elements under its root
DocA == [channels |-> <<ChannelElem(Key1, <<NameCCTV1>>)>>,
         programmes |-> <<ProgrammeElem(Key1, StampText(1, 0), StampText(2, 0))>>]
DocB == [channels |-> <<ChannelElem(Key2, <<NameCCTV2>>)>>,
         programmes |-> <<ProgrammeElem(Key1, StampText(3, 0), StampText(4, 0))>>]
\* a programme in the format, then one whose start is not
DocBadStamp ==
    [channels |-> <<ChannelElem(Key1, <<NameCCTV1>>)>>,
     programmes |-> <<ProgrammeElem(Key1, StampText(1, 0), StampText(2, 0)),
                      ProgrammeElem(Key1, BadStampText, StampText(2, 0))>>]
\* two programmes of one channel, the later one first in the document
DocLaterFirst ==
    [channels |-> <<ChannelElem(Key1, <<NameCCTV1>>)>>,
     programmes |-> <<ProgrammeElem(Key1, StampText(3, 0), StampText(4, 0)),
                      ProgrammeElem(Key1, StampText(1, 0), StampText(2, 0))>>]
\* a root element without children
DocEmpty == [channels |-> <<>>, programmes |-> <<>>]

Docs == {DocA, DocB, DocBadStamp, DocLaterFirst, DocEmpty}

\* the first loop of _parse_epg: one entry per tv:channel element
RECURSIVE parse_channels(_, _)
parse_channels(epg, chans) ==
    IF chans = <<>> THEN epg
    ELSE parse_channels(
             DictSet(epg, Head(chans).id,
                     <<<<"display_names", Head(chans).display_names>>,
                       <<"icons", Head(chans).icons>>>>),
             Tail(chans))

\* epg.setdefault(chan_id, {}).setdefault('programmes', []).append({...})
append_programme(epg, pr) ==
    LET entry == DictGetOr(epg, pr.channel, EmptyDict)
        progs == DictGetOr(entry, "programmes", <<>>)
        item == [start |-> isoformat(pr.start), end |-> isoformat(pr.stop),
                 title |-> pr.title, desc |-> pr.desc, category |-> pr.category]
    IN DictSet(epg, pr.channel, DictSet(entry, "programmes", Append(progs, item)))

\* the second loop of _parse_epg: strptime raises ValueError on a start or
\* stop that is not in the format, and nothing catches it
RECURSIVE parse_programmes(_, _)
parse_programmes(epg, progs) ==
    IF progs = <<>> THEN Ok(epg)
    ELSE IF ~Head(progs).start.wf \/ ~Head(progs).stop.wf THEN Raise("ValueError")
    ELSE parse_programmes(append_programme(epg, Head(progs)), Tail(progs))

\* EPGManager._parse_epg(root)
parse_epg(root) ==
    parse_programmes(parse_channels(EmptyDict, root.channels), root.programmes)

\* bool(root) of the Element ET.fromstring returns: it has children
ElementTruthy(root) == Len(root.channels) + Len(root.programmes) > 0

----------------------------------------------------------------------------
(* EPGManager._download_epg and EPGManager.update_epg.                     *)

\* what requests.get(url, timeout=15) brings: a document, or an error: a
\* timeout, a network error, an HTTP error status or content that is not
\* XML, all of which _download_epg catches
ErrorResponse == [ok |-> FALSE]
DocResponse(d) == [ok |-> TRUE, doc |-> d]

\* the documents the i-th provider serves
ProviderDocs(i) ==
    IF i % 2 = 1 THEN {DocA, DocBadStamp, DocLaterFirst}
    ELSE {DocB, DocBadStamp, DocEmpty}
\* what the requests of one update_epg call bring, by provider
ResponseMaps(providers) ==
    {r \in [Range(providers) -> {ErrorResponse} \cup {DocResponse(d) : d \in Docs}] :
        \A i \in DOMAIN providers :
            r[providers[i]].ok => r[providers[i]].doc \in ProviderDocs(i)}

\* EPGManager._download_epg(url), given what the request brings
download_epg(resp) == IF resp.ok THEN resp.doc ELSE PyNone

\* a cache file: absent, or the document written at mtime; corrupt when the
\* file is not XML (a write cut short)
NoFile == [exists |-> FALSE]
CacheFile(mtime, doc) == [exists |-> TRUE, mtime |-> mtime, corrupt |-> FALSE, doc |-> doc]
CorruptFile(mtime) == [exists |-> TRUE, mtime |-> mtime, corrupt |-> TRUE, doc |-> DocEmpty]

\* a mutant of merge_provider: under "merge" an id an earlier provider
\* declared keeps the earlier entry
merge_provider_keep(cfg, merged_epg, provider_epg) ==
    IF cfg.output.epg_strategy = "merge"
    THEN LET RECURSIVE upd(_, _)
             upd(d, e) == IF e = <<>> THEN d
                          ELSE upd(IF DictHas(d, Head(e)[1]) THEN d
                                   ELSE DictSet(d, Head(e)[1], Head(e)[2]), Tail(e))
         IN upd(merged_epg, provider_epg)
    ELSE provider_epg

\* lines 115-118: merged_epg.update(provider_epg) under "merge",
\* merged_epg = provider_epg otherwise
merge_provider(cfg, merged_epg, provider_epg) ==
    IF cfg.output.epg_strategy = "merge"
    THEN LET RECURSIVE upd(_, _)
             upd(d, e) == IF e = <<>> THEN d
                          ELSE upd(DictSet(d, Head(e)[1], Head(e)[2]), Tail(e))
         IN upd(merged_epg, provider_epg)
    ELSE provider_epg

\* the state of the loop of update_epg over the providers
LoopStart(files) ==
    [merged |-> EmptyDict, files |-> files, reached |-> 0, fetched |-> <<>>,
     failed |-> {}, parsed |-> <<>>, raised |-> ""]

\* the loop of update_epg from provider i on, at time t; resp[p] is what a
\* request to provider p brings
RECURSIVE provider_loop(_, _, _, _, _)
provider_loop(cfg, t, i, acc, resp) ==
    IF i > Len(cfg.epg.providers) THEN acc
    ELSE
      LET p == cfg.epg.providers[i]
          file == acc.files[p]
          fresh == file.exists /\ (t - file.mtime) < cfg.epg.cache_ttl
      IN
      IF fresh /\ file.corrupt
      THEN \* ET.parse(cache_file) raises ParseError, and nothing catches it
           [acc EXCEPT !.reached = i, !.raised = "ParseError"]
      ELSE
        LET root == IF fresh THEN file.doc ELSE download_epg(resp[p])
            \* if root: an ElementTree (from the cache) is true, an Element
            \* (downloaded) is true when it has children
            truthy == IF fresh THEN TRUE
                      ELSE IF root = PyNone THEN FALSE ELSE ElementTruthy(root)
            acc1 == IF fresh THEN [acc EXCEPT !.reached = i]
                    ELSE [acc EXCEPT
                            !.reached = i,
                            !.fetched = Append(@, p),
                            !.failed = IF root = PyNone THEN @ \cup {p} ELSE @,
                            !.files = IF truthy
                                      THEN [@ EXCEPT ![p] = CacheFile(t, root)]
                                      ELSE @]
        IN
        IF ~truthy THEN provider_loop(cfg, t, i + 1, acc1, resp)
        ELSE
          LET pe == parse_epg(root) IN
          IF pe.raised # "" THEN [acc1 EXCEPT !.raised = pe.raised]
          ELSE provider_loop(cfg, t, i + 1,
                   [acc1 EXCEPT
                      !.merged = merge_provider(cfg, @, pe.value),
                      !.parsed = Append(@, <<p, pe.value>>)],
                   resp)

\* what a call of update_epg is remembered by
NoCall == [gate |-> "none"]
CallRecord(t, gate, acc, before, lu) ==
    [gate |-> gate, t |-> t, reached |-> acc.reached, fetched |-> acc.fetched,
     failed |-> acc.failed, parsed |-> acc.parsed, raised |-> acc.raised,
     before |-> before, lu_before |-> lu]

\* what the call before the latest is remembered by
Summary(call) ==
    IF call.gate = "none" THEN call
    ELSE [gate |-> call.gate, t |-> call.t, fetched |-> call.fetched,
          parsed |-> call.parsed, raised |-> call.raised]

\* line 99: time.time() - self.last_update < CONFIG["epg"]["cache_ttl"]
gate_closed(cfg, t, lu) == t - lu < cfg.epg.cache_ttl

\* EPGManager.update_epg(). The clock is read once for the call.
update_epg_call ==
    /\ ncalls' = ncalls + 1
    /\ prevCall' = Summary(lastCall)
    /\ IF "epg" \notin DOMAIN CONFIG
       THEN \* CONFIG["epg"] raises KeyError at line 99
            /\ lastCall' = CallRecord(now, "KeyError",
                                      [LoopStart(cache) EXCEPT !.raised = "KeyError"],
                                      epg_data, last_update)
            /\ UNCHANGED <<epg_data, last_update, cache>>
       ELSE IF gate_closed(CONFIG, now, last_update)
       THEN /\ lastCall' = CallRecord(now, "closed", LoopStart(cache),
                                      epg_data, last_update)
            /\ UNCHANGED <<epg_data, last_update, cache>>
       ELSE \E resp \in ResponseMaps(CONFIG.epg.providers) :
              LET acc == provider_loop(CONFIG, now, 1, LoopStart(cache), resp) IN
              /\ lastCall' = CallRecord(now, "open", acc, epg_data, last_update)
              /\ cache' = acc.files
              /\ IF acc.raised # ""
                 THEN UNCHANGED <<epg_data, last_update>>
                 ELSE /\ epg_data' = acc.merged
                      /\ last_update' = now

\* a call of update_epg on its own
UpdateEpg ==
    /\ ncalls < MaxCalls
    /\ update_epg_call
    /\ UNCHANGED <<CONFIG, now, channels, ingested, match_arg, match_res>>
    /\ UNCHANGED <<parser_vars, process_vars>>

\* time passes
Tick ==
    /\ now < TtlTicks + MaxTicks
    /\ now' = now + 1
    /\ UNCHANGED <<CONFIG, channels, ingested, epg_data, last_update, cache,
                   lastCall, prevCall, ncalls, match_arg, match_res>>
    /\ UNCHANGED <<parser_vars, process_vars>>

----------------------------------------------------------------------------
(* EPGManager._similar and EPGManager.match_channel.                       *)

UpperCase == <<"A", "B", "C", "D", "E", "F", "G", "H", "I", "J", "K", "L", "M",
               "N", "O", "P", "Q", "R", "S", "T", "U", "V", "W", "X", "Y", "Z">>
LowerCase == <<"a", "b", "c", "d", "e", "f", "g", "h", "i", "j", "k", "l", "m",
               "n", "o", "p", "q", "r", "s", "t", "u", "v", "w", "x", "y", "z">>
Digits == {"0", "1", "2", "3", "4", "5", "6", "7", "8", "9"}

\* str.lower(), on the ASCII strings of the model
LowerChar(c) ==
    IF c \in Range(UpperCase)
    THEN LowerCase[CHOOSE i \in DOMAIN UpperCase : UpperCase[i] = c]
    ELSE c
lower(s) == [i \in DOMAIN s |-> LowerChar(s[i])]

\* a character \W does not match: a letter, a digit or the underscore
IsWordChar(c) == c \in Range(UpperCase) \cup Range(LowerCase) \cup Digits \cup {"_"}
\* re.sub(r'\W+', '', s)
strip_nonword(s) == SelectSeq(s, IsWordChar)

\* a in b, for strings
Contains(b, a) ==
    \E i \in 0..(Len(b) - Len(a)) : SubSeq(b, i + 1, i + Len(a)) = a
\* b.startswith(a)
StartsWith(b, a) == Len(a) <= Len(b) /\ SubSeq(b, 1, Len(a)) = a

\* EPGManager._similar(a, b): a is an identifier of the channel (a str, None
\* or a list), b a display name; a.lower() raises AttributeError when a is
\* not a str
similar(a, b) ==
    IF a.t # "str" THEN Raise("AttributeError")
    ELSE LET na == strip_nonword(lower(a.v))
             nb == strip_nonword(lower(b))
         IN Ok(Contains(nb, na) \/ Contains(na, nb)
               \/ StartsWith(na, nb) \/ StartsWith(nb, na))

\* bool(identifier) of a str
Truthy(a) == a.v # <<>>

\* line 141: any(identifier for identifier in identifiers
\*               if self._similar(identifier, name))
RECURSIVE any_similar(_, _)
any_similar(identifiers, name) ==
    IF identifiers = <<>> THEN Ok(FALSE)
    ELSE LET r == similar(Head(identifiers), name) IN
         IF r.raised # "" THEN r
         ELSE IF r.value /\ Truthy(Head(identifiers)) THEN Ok(TRUE)
         ELSE any_similar(Tail(identifiers), name)

\* line 140: the loop over the display names of one entry
RECURSIVE names_loop(_, _)
names_loop(identifiers, names) ==
    IF names = <<>> THEN Ok(FALSE)
    ELSE LET r == any_similar(identifiers, Head(names)) IN
         IF r.raised # "" \/ r.value THEN r
         ELSE names_loop(identifiers, Tail(names))

\* what match_channel returns or raises
MatchOk(entry) == [raised |-> "", found |-> TRUE, value |-> entry]
MatchNone == [raised |-> "", found |-> FALSE, value |-> <<>>]
MatchRaise(e) == [raised |-> e, found |-> FALSE, value |-> <<>>]

\* lines 139-142: the fuzzy tier, over the entries in the order of the dict;
\* epg['display_names'] raises KeyError on an entry without that key
RECURSIVE fuzzy_tier(_, _)
fuzzy_tier(items, identifiers) ==
    IF items = <<>> THEN MatchNone
    ELSE LET epg == Head(items)[2] IN
         IF ~DictHas(epg, "display_names") THEN MatchRaise("KeyError")
         ELSE LET r == names_loop(identifiers, DictGet(epg, "display_names")) IN
              IF r.raised # "" THEN MatchRaise(r.raised)
              ELSE IF r.value THEN MatchOk(epg)
              ELSE fuzzy_tier(Tail(items), identifiers)

\* a mutant of exact_tier: the identifier kinds are tried last to first
RECURSIVE exact_tier_reversed(_, _, _)
exact_tier_reversed(priority, index, channel) ==
    IF priority = <<>> THEN MatchNone
    ELSE LET id_type == priority[Len(priority)] IN
         IF DictHas(channel, id_type)
            /\ DictGet(channel, id_type).t = "str"
            /\ DictHas(index, DictGet(channel, id_type).v)
         THEN MatchOk(DictGet(index, DictGet(channel, id_type).v))
         ELSE exact_tier_reversed(SubSeq(priority, 1, Len(priority) - 1), index, channel)

\* lines 133-135: the exact tier; a list as a dict key raises TypeError
RECURSIVE exact_tier(_, _, _)
exact_tier(priority, index, channel) ==
    IF priority = <<>> THEN MatchNone
    ELSE LET id_type == Head(priority) IN
         IF ~DictHas(channel, id_type)
         THEN exact_tier(Tail(priority), index, channel)
         ELSE LET v == DictGet(channel, id_type) IN
              IF v.t = "list" THEN MatchRaise("TypeError")
              ELSE IF v.t = "str" /\ DictHas(index, v.v)
              THEN MatchOk(DictGet(index, v.v))
              ELSE exact_tier(Tail(priority), index, channel)

\* lines 125-130
identifiers_of(channel) ==
    <<DictGetOr(channel, "tvg-id", PyNone),
      DictGetOr(channel, "tvg-name", PyNone),
      DictGetOr(channel, "name", PyNone)>>
        \o DictGetOr(channel, "aliases", PyList(<<>>)).v

\* EPGManager.match_channel(channel), on the index
match_channel(cfg, index, channel) ==
    LET e == exact_tier(cfg.matching.priority, index, channel) IN
    IF e.raised # "" \/ e.found THEN e
    ELSE IF cfg.matching.fuzzy_match
    THEN fuzzy_tier(index, identifiers_of(channel))
    ELSE MatchNone

\* str.split(' '): the pieces between the spaces
RECURSIVE split_space(_, _)
split_space(s, piece) ==
    IF s = <<>> THEN <<PyStr(piece)>>
    ELSE IF Head(s) = " " THEN <<PyStr(piece)>> \o split_space(Tail(s), <<>>)
    ELSE split_space(Tail(s), Append(piece, Head(s)))
\* str.replace(' ', '')
remove_spaces(s) == SelectSeq(s, LAMBDA c : c # " ")

\* the dict _match_epg hands to match_channel for a channel of the store
match_epg_arg(chan) ==
    <<<<"tvg-id", PyStr(chan.tvg_id)>>,
      <<"name", PyStr(chan.name)>>,
      <<"aliases", PyList(<<PyList(split_space(chan.name, <<>>)),
                            PyStr(remove_spaces(chan.name))>>)>>>>

\* the loop of _match_epg over the items of the store from place i on; an
\* exception of match_channel ends it
RECURSIVE match_epg_loop(_, _, _, _)
match_epg_loop(cfg, index, chans, i) ==
    IF i > Len(chans) THEN [chans |-> chans, raised |-> "", last |-> Len(chans)]
    ELSE LET r == match_channel(cfg, index, match_epg_arg(chans[i][2])) IN
         IF r.raised # "" THEN [chans |-> chans, raised |-> r.raised, last |-> i]
         ELSE match_epg_loop(cfg, index,
                  [chans EXCEPT ![i][2].epg =
                       IF r.found THEN SomeEpg(r.value) ELSE NoEpg],
                  i + 1)

\* match_res before any call, and after one
NotCalled == [called |-> FALSE]
CallResult(r) ==
    [called |-> TRUE, raised |-> r.raised, found |-> r.found, value |-> r.value]

\* the longest EPG index of the matcher's runs
MaxIndexLen == 2

Str_cctv1 == <<"c", "c", "t", "v", "1">>
Str_CCTV1 == <<"C", "C", "T", "V", "1">>
Str_x2 == <<"x", "2">>
Str_p == <<"p">>
Str_zz == <<"z", "z">>
NameNews == <<"N", "e", "w", "s">>
NameZ == <<"Z">>
NameCCTV == <<"C", "C", "T", "V">>

\* documents of one element each: three channel declarations and a programme
\* of a channel that is not declared
ElementDocs ==
    {[channels |-> <<ChannelElem(Str_cctv1, <<NameCCTV1>>)>>, programmes |-> <<>>],
     [channels |-> <<ChannelElem(Str_CCTV1, <<NameNews>>)>>, programmes |-> <<>>],
     [channels |-> <<ChannelElem(Str_x2, <<NameZ, NameCCTV>>)>>, programmes |-> <<>>],
     [channels |-> <<>>,
      programmes |-> <<ProgrammeElem(Str_p, StampText(1, 0), StampText(2, 0))>>]}

\* the index update_epg builds under "merge" from the documents ds, in order
RECURSIVE IndexOf(_)
IndexOf(ds) ==
    IF ds = <<>> THEN EmptyDict
    ELSE merge_provider(PatchedCONFIG(TRUE, "merge"),
                        IndexOf(SubSeq(ds, 1, Len(ds) - 1)),
                        parse_epg(ds[Len(ds)]).value)

Indexes ==
    {IndexOf(ds) :
        ds \in UNION {{f \in [1..n -> ElementDocs] :
                          \A i, j \in 1..n : f[i] = f[j] => i = j} :
                      n \in 0..MaxIndexLen}}

\* the channel dicts match_channel is called with: each of tvg-id, tvg-name
\* and name absent or a string
OptionalItem(key, strings) == {<<>>} \cup {<<<<key, PyStr(x)>>>> : x \in strings}
ChannelDicts ==
    {a \o b \o c :
        a \in OptionalItem("tvg-id", {<<>>, Str_cctv1, Str_CCTV1, Str_zz}),
        b \in OptionalItem("tvg-name", {Str_CCTV1, Str_zz}),
        c \in OptionalItem("name", {Str_CCTV1, Str_zz})}

\* a call of match_channel
MatchChannel ==
    /\ \E channel \in ChannelDicts :
          /\ match_arg' = channel
          /\ match_res' = CallResult(match_channel(CONFIG, epg_data, channel))
    /\ UNCHANGED <<CONFIG, now, channels, ingested, epg_data, last_update, cache,
                   lastCall, prevCall, ncalls>>
    /\ UNCHANGED <<parser_vars, process_vars>>

\* IPTVSystem._match_epg() over a store that is not empty: match_arg and
\* match_res keep its last call of match_channel
match_epg_call ==
    LET r == match_epg_loop(CONFIG, epg_data, channels, 1)
        arg == match_epg_arg(channels[r.last][2])
    IN /\ channels' = r.chans
       /\ match_arg' = arg
       /\ match_res' = CallResult(match_channel(CONFIG, epg_data, arg))

\* a call of _match_epg on its own
MatchEpg ==
    /\ channels # EmptyDict
    /\ match_epg_call
    /\ UNCHANGED <<CONFIG, now, ingested, epg_data, last_update, cache,
                   lastCall, prevCall, ncalls>>
    /\ UNCHANGED <<parser_vars, process_vars>>

----------------------------------------------------------------------------
(* M3UProcessor.parse (iptv_collector.py).                                 *)
(*                                                                         *)
(* The playlist text is a sequence of lines, each line by its shape:       *)
(*   an #EXTINF line   #EXTINF:-1 k1="v1" k2="v2",title                   *)
(*   a comment line    any other line that starts with '#'                 *)
(*   any other line    its text (a locator, or an empty line)              *)
(* channel_pattern is matched on these shapes as re matches it on the      *)
(* characters.                                                             *)

\* the longest playlist, in lines
MaxLines == 3

ExtInf(attrs, title) == [kind |-> "extinf", attrs |-> attrs, title |-> title]
CommentLine == [kind |-> "comment"]
OtherLine(text) == [kind |-> "other", text |-> text]

\* str.strip(): leading and trailing whitespace goes
Whitespace == {" ", "\r"}
RECURSIVE lstrip(_)
lstrip(s) == IF s # <<>> /\ Head(s) \in Whitespace THEN lstrip(Tail(s)) ELSE s
RECURSIVE rstrip(_)
rstrip(s) ==
    IF s # <<>> /\ s[Len(s)] \in Whitespace
    THEN rstrip(SubSeq(s, 1, Len(s) - 1)) ELSE s
strip(s) == rstrip(lstrip(s))

\* '.*,(.*)' at the end of the line: what follows the last comma
RECURSIVE after_last_comma(_)
after_last_comma(s) ==
    IF \E i \in DOMAIN s : s[i] = ","
    THEN after_last_comma(Tail(s)) ELSE s

Str_http == <<"h", "t", "t", "p">>

\* the attributes group-title="([^"]+)" can match: '.*' before it is greedy,
\* so the last one on the line with a value that is not empty
GroupTitlePlaces(ln) ==
    {j \in 2..Len(ln.attrs) :
        ln.attrs[j][1] = "group-title" /\ ln.attrs[j][2] # <<>>}
Last(S) == CHOOSE j \in S : \A k \in S : k <= j

\* channel_pattern matches from line i on:
\*   #EXTINF:-1\s+tvg-name="([^"]+)"    tvg-name comes first, not empty
\*   .*group-title="([^"]+)"            then a group-title, not empty
\*   .*,(.*)\n(http.*)                  the title, and the very next line
\*                                      starts with http
pattern_matches_at(lines, i) ==
    /\ lines[i].kind = "extinf"
    /\ lines[i].attrs # <<>>
    /\ lines[i].attrs[1][1] = "tvg-name"
    /\ lines[i].attrs[1][2] # <<>>
    /\ GroupTitlePlaces(lines[i]) # {}
    /\ i + 1 <= Len(lines)
    /\ lines[i + 1].kind = "other"
    /\ StartsWith(lines[i + 1].text, Str_http)

\* the tuple of the four groups of the match at line i
groups_at(lines, i) ==
    <<lines[i].attrs[1][2],
      lines[i].attrs[Last(GroupTitlePlaces(lines[i]))][2],
      after_last_comma(lines[i].title),
      lines[i + 1].text>>

\* channel_pattern.findall(content): the matches from left to right, none
\* overlapping another
RECURSIVE findall(_, _)
findall(lines, i) ==
    IF i > Len(lines) THEN <<>>
    ELSE IF pattern_matches_at(lines, i)
         THEN <<groups_at(lines, i)>> \o findall(lines, i + 2)
         ELSE findall(lines, i + 1)

\* Lines 14-16 of iptv_collector.py hold 'match', U+200C and
\* ':ml-citation{ref="1" ...}' where an expression on match is expected, and
\* line 13 calls .strip() on match itself. How the file is read:
\*   "as_written"   the file as it is: Python rejects it (SyntaxError), and
\*                  no call of parse returns
\*   "refs"         the markers of lines 14-16 read as match[1], match[2],
\*                  match[3], line 13 as written: match is a tuple, and
\*                  match.strip() raises AttributeError
\*   "indexes"      line 13 read as match[0] as well
Readings == {"as_written", "refs", "indexes"}

\* the dict built from one match
channel_dict(match) ==
    <<<<"name", strip(match[1])>>, <<"category", strip(match[2])>>,
      <<"title", strip(match[3])>>, <<"url", strip(match[4])>>>>

\* M3UProcessor.parse(content)
parse(content, reading) ==
    LET matches == findall(content, 1) IN
    IF reading = "as_written" THEN Raise("SyntaxError")
    ELSE IF reading = "refs" /\ matches # <<>> THEN Raise("AttributeError")
    ELSE Ok([k \in DOMAIN matches |-> channel_dict(matches[k])])

\* what a call of parse is remembered by
ParseResult(reading, r) ==
    [called |-> TRUE, reading |-> reading, raised |-> r.raised,
     value |-> IF r.raised = "" THEN r.value ELSE <<>>]

\* a call of M3UProcessor.parse on the playlist
Parse ==
    /\ \E reading \in Readings :
          parse_res' = ParseResult(reading, parse(playlist, reading))
    /\ UNCHANGED <<CONFIG, now, channels, ingested, epg_data, last_update,
                   cache, lastCall, prevCall, ncalls, match_arg, match_res,
                   playlist, process_vars>>

\* the lines of the playlists
Str_g == <<"g">>
Str_T1 == <<"T", "1">>
Str_T2 == <<"x", ",", "T", "2">>
Str_Locator1 == <<"h", "t", "t", "p", "1">>
Str_Locator2 == <<"h", "t", "t", "p", "2", "\r">>
Str_rtmp == <<"r", "t", "m", "p">>
\* tvg-name and group-title: what channel_pattern is written for
MetaNameGroup == ExtInf(<<<<"tvg-name", Str_CCTV1>>, <<"group-title", Str_g>>>>, Str_T1)
\* tvg-id and group-title, no tvg-name
MetaIdGroup == ExtInf(<<<<"tvg-id", Str_cctv1>>, <<"group-title", Str_g>>>>, Str_T1)
\* tvg-name, tvg-logo and group-title, a comma in the title
MetaNameLogoGroup ==
    ExtInf(<<<<"tvg-name", Str_zz>>, <<"tvg-logo", Str_p>>,
             <<"group-title", Str_x2>>>>, Str_T2)
\* no group-title
MetaNameOnly == ExtInf(<<<<"tvg-name", Str_CCTV1>>>>, Str_T1)
PlaylistLines ==
    {CommentLine, MetaNameGroup, MetaIdGroup, MetaNameLogoGroup, MetaNameOnly,
     OtherLine(Str_Locator1), OtherLine(Str_Locator2), OtherLine(Str_rtmp),
     OtherLine(<<>>)}
Playlists == UNION {[1..n -> PlaylistLines] : n \in 0..MaxLines}

----------------------------------------------------------------------------
(* IPTVSystem.process and IPTVSystem._process_source.                      *)
(*                                                                         *)
(* iptv_pro.py uses three names it does not define: github_sources (line   *)
(* 197; the comment of line 196 leaves the GitHub search to an earlier     *)
(* version), _collect_epg_sources (line 178) and M3UParser (line 204).     *)
(* They are modelled by what the specification says of source discovery    *)
(* and of the playlist parser.                                             *)

\* the number of sources process() submits
NumSources == 2

SourceUrl(i) == <<"s", ":", i>>
\* CONFIG["iptv"]["custom_urls"]
CustomUrls == <<SourceUrl(1)>>
\* the sources the GitHub search found
github_sources == [i \in 1..(NumSources - 1) |-> SourceUrl(i + 1)]
\* _collect_epg_sources(): its value is not used
collect_epg_sources == Ok(<<>>)

\* _collect_iptv_sources(): CONFIG["iptv"] raises KeyError when CONFIG has
\* no such key
collect_iptv_sources(cfg) ==
    IF "iptv" \notin DOMAIN cfg THEN Raise("KeyError")
    ELSE Ok(CustomUrls \o github_sources)

\* what requests.get(url, timeout=10) brings: an exception (timeout,
\* connection error), a response that is not ok, or an ok response with a
\* playlist text
FetchError == [kind |-> "error"]
BadStatus == [kind |-> "status"]
OkResponse(text) == [kind |-> "ok", text |-> text]

\* M3UParser().parse(text): the records of the playlist, each with its url;
\* a text is given by the records it holds
M3UParser_parse(text) == text

\* IPTVSystem._process_source(url), given what the request brings, at time
\* t: an exception of the request is caught at line 205, a response that is
\* not ok falls through to line 207
process_source(resp, t) ==
    IF resp.kind = "ok"
    THEN LET chans == M3UParser_parse(resp.text)
         IN [k \in DOMAIN chans |-> EnhancedChannel(chans[k], t)]
    ELSE <<>>

\* the playlists of the sources: raw records with a name, two of them with
\* the same url and different quality
RecCCTV1 == <<<<"url", Url1>>, <<"tvg-id", Key1>>, <<"name", NameCCTV1>>>>
RecOther == <<<<"url", Url2>>, <<"name", Str_CCTV1>>>>
RecCCTV1Better ==
    <<<<"url", Url1>>, <<"tvg-id", Str_zz>>, <<"name", Str_CCTV1>>, <<"quality", 1>>>>
\* what the request to the i-th source can bring
SourceResponses(i) ==
    IF i % 2 = 1
    THEN {FetchError, BadStatus, OkResponse(<<RecCCTV1Better>>),
          OkResponse(<<RecCCTV1, RecOther>>)}
    ELSE {FetchError, OkResponse(<<RecCCTV1Better>>), OkResponse(<<RecCCTV1>>)}

\* a future: the source, where its worker is, how its request went and what
\* _process_source returned
Future(url) == [url |-> url, state |-> "running", outcome |-> "", result |-> <<>>]

\* lines 177-182 of process(): the sources are collected and every source is
\* submitted to the executor (max_workers is 8, every worker starts)
StartProcess ==
    /\ pc = "idle"
    /\ LET srcs == collect_iptv_sources(CONFIG) IN
       IF srcs.raised # ""
       THEN /\ pc' = "raised"
            /\ process_exc' = srcs.raised
            /\ UNCHANGED futures
       ELSE /\ pc' = "fanout"
            /\ futures' = [i \in DOMAIN srcs.value |-> Future(srcs.value[i])]
            /\ UNCHANGED process_exc
    /\ UNCHANGED <<CONFIG, now, channels, ingested, epg_data, last_update,
                   cache, lastCall, prevCall, ncalls, match_arg, match_res,
                   parser_vars>>

\* a worker thread runs _process_source(url) to its end
WorkerReturns ==
    /\ pc = "fanout"
    /\ \E i \in DOMAIN futures :
          /\ futures[i].state = "running"
          /\ \E resp \in SourceResponses(i) :
                futures' = [futures EXCEPT
                              ![i].state = "done",
                              ![i].outcome = resp.kind,
                              ![i].result = process_source(resp, now)]
    /\ UNCHANGED <<CONFIG, now, channels, ingested, epg_data, last_update,
                   cache, lastCall, prevCall, ncalls, match_arg, match_res,
                   parser_vars, pc, process_exc>>

\* lines 183-185: as_completed hands the main thread a finished future, and
\* the main thread adds its result when the list is not empty
TakeResult ==
    /\ pc = "fanout"
    /\ \E i \in DOMAIN futures :
          /\ futures[i].state = "done"
          /\ futures' = [futures EXCEPT ![i].state = "taken"]
          /\ IF futures[i].result # <<>>
             THEN /\ channels' = add_channels(channels, futures[i].result)
                  /\ ingested' = ingested \o futures[i].result
             ELSE UNCHANGED <<channels, ingested>>
    /\ UNCHANGED <<CONFIG, now, epg_data, last_update, cache, lastCall,
                   prevCall, ncalls, match_arg, match_res, parser_vars, pc,
                   process_exc>>

\* a mutant of joined: the with block is left as soon as one future has
\* been handed over
joined_first(fs) == \E i \in DOMAIN fs : fs[i].state = "taken"

\* the loop over as_completed(futures) ends, and the with block is left,
\* when every future has been handed over
joined(fs) == \A i \in DOMAIN fs : fs[i].state = "taken"

\* line 185 to line 188: the with block is left
LeaveExecutor ==
    /\ pc = "fanout"
    /\ joined(futures)
    /\ pc' = "epg"
    /\ UNCHANGED <<CONFIG, now, channels, ingested, epg_data, last_update,
                   cache, lastCall, prevCall, ncalls, match_arg, match_res,
                   parser_vars, futures, process_exc>>

\* line 188: self.epg_manager.update_epg(); its exception leaves process()
ProcessUpdateEpg ==
    /\ pc = "epg"
    /\ update_epg_call
    /\ pc' = IF lastCall'.raised # "" THEN "raised" ELSE "match"
    /\ process_exc' = lastCall'.raised
    /\ UNCHANGED <<CONFIG, now, channels, ingested, match_arg, match_res,
                   parser_vars, futures>>

\* line 189: self._match_epg(); an exception of match_channel leaves process()
ProcessMatchEpg ==
    /\ pc = "match"
    /\ IF channels = EmptyDict
       THEN /\ pc' = "output"
            /\ UNCHANGED <<channels, match_arg, match_res, process_exc>>
       ELSE /\ match_epg_call
            /\ pc' = IF match_res'.raised # "" THEN "raised" ELSE "output"
            /\ process_exc' = match_res'.raised
    /\ UNCHANGED <<CONFIG, now, ingested, epg_data, last_update, cache,
                   lastCall, prevCall, ncalls, parser_vars, futures>>

\* line 192: self._generate_outputs() writes the files from the store
GenerateOutputs ==
    /\ pc = "output"
    /\ pc' = "done"
    /\ UNCHANGED <<CONFIG, now, channels, ingested, epg_data, last_update,
                   cache, lastCall, prevCall, ncalls, match_arg, match_res,
                   parser_vars, futures, process_exc>>

----------------------------------------------------------------------------
(* Specifications.                                                         *)

StoreIdle == channels = EmptyDict /\ ingested = <<>>
EpgIdle ==
    /\ epg_data = EmptyDict
    /\ last_update = 0
    /\ cache = [p \in Range(ProviderList) |-> NoFile]
    /\ lastCall = NoCall
    /\ prevCall = NoCall
    /\ ncalls = 0
MatchIdle == match_arg = EmptyDict /\ match_res = NotCalled
ParserIdle == playlist = <<>> /\ parse_res = [called |-> FALSE]
ProcessIdle == pc = "idle" /\ futures = <<>> /\ process_exc = ""

\* the channel store under _add_channels calls
InitStore ==
    /\ CONFIG = ShippedCONFIG
    /\ now = TtlTicks
    /\ StoreIdle /\ EpgIdle /\ MatchIdle
    /\ ParserIdle /\ ProcessIdle
NextStore == AddChannels
SpecStore == InitStore /\ [][NextStore]_vars

\* the cache file an earlier run of the program can have left for the first
\* provider: none, a document still fresh, one gone stale, or a fresh file
\* not written to the end
InitialFiles ==
    {NoFile, CacheFile(TtlTicks - 1, DocA), CacheFile(0, DocA),
     CorruptFile(TtlTicks - 1)}
InitialCaches ==
    {[p \in Range(ProviderList) |-> IF p = ProviderList[1] THEN f ELSE NoFile] :
        f \in InitialFiles}

\* EPGManager under update_epg calls as time passes
InitEpg ==
    /\ CONFIG \in {ShippedCONFIG, PatchedCONFIG(TRUE, "merge"),
                   PatchedCONFIG(TRUE, "replace")}
    /\ now = TtlTicks
    /\ epg_data = EmptyDict
    /\ last_update = 0
    /\ cache \in InitialCaches
    /\ lastCall = NoCall
    /\ prevCall = NoCall
    /\ ncalls = 0
    /\ StoreIdle /\ MatchIdle
    /\ ParserIdle /\ ProcessIdle
NextEpg == UpdateEpg \/ Tick
SpecEpg == InitEpg /\ [][NextEpg]_vars

\* the raw_data dicts of the matcher's runs: with a tvg-id and a name
NamedRecords ==
    {<<<<"url", Url1>>, <<"tvg-id", Str_cctv1>>, <<"name", NameCCTV1>>>>,
     <<<<"url", Url2>>, <<"name", Str_CCTV1>>>>,
     <<<<"url", Url1>>, <<"tvg-id", Str_zz>>, <<"name", Str_CCTV1>>, <<"quality", 1>>>>}

\* EPGManager.match_channel and IPTVSystem._match_epg over an index and a
\* store that update_epg and _add_channels have built
InitMatch ==
    /\ CONFIG \in {ShippedCONFIG, PatchedCONFIG(FALSE, "merge")}
    /\ now = TtlTicks
    /\ epg_data \in Indexes
    /\ last_update = 0
    /\ cache = [p \in Range(ProviderList) |-> NoFile]
    /\ lastCall = NoCall
    /\ prevCall = NoCall
    /\ ncalls = 0
    /\ \E n \in 1..2 :
          \E lst \in [1..n -> {EnhancedChannel(r, now) : r \in NamedRecords}] :
              /\ ingested = lst
              /\ channels = add_channels(EmptyDict, lst)
    /\ MatchIdle
    /\ ParserIdle /\ ProcessIdle
NextMatch == MatchChannel \/ MatchEpg
SpecMatch == InitMatch /\ [][NextMatch]_vars

\* M3UProcessor.parse over the playlists
InitParse ==
    /\ CONFIG = ShippedCONFIG
    /\ now = TtlTicks
    /\ StoreIdle /\ EpgIdle /\ MatchIdle /\ ProcessIdle
    /\ playlist \in Playlists
    /\ parse_res = [called |-> FALSE]
NextParse == Parse
SpecParse == InitParse /\ [][NextParse]_vars

\* one run of IPTVSystem.process()
InitProcess ==
    /\ CONFIG \in {ShippedCONFIG, PatchedCONFIG(FALSE, "merge"),
                   PatchedCONFIG(TRUE, "merge")}
    /\ now = TtlTicks
    /\ StoreIdle /\ EpgIdle /\ MatchIdle /\ ParserIdle /\ ProcessIdle
NextProcess ==
    \/ StartProcess
    \/ WorkerReturns
    \/ TakeResult
    \/ LeaveExecutor
    \/ ProcessUpdateEpg
    \/ ProcessMatchEpg
    \/ GenerateOutputs
SpecProcess == InitProcess /\ [][NextProcess]_vars

----------------------------------------------------------------------------
(* The channel store: claims C1, C2, C3 (under SpecStore).                 *)

\* the places of the ingested records with identity k
PlacesOf(k) == {i \in DOMAIN ingested : ingested[i].id = k}
IngestedIds == {ingested[i].id : i \in DOMAIN ingested}
MaxQualityOf(k) ==
    CHOOSE q \in {ingested[i].metadata.quality : i \in PlacesOf(k)} :
        \A i \in PlacesOf(k) : ingested[i].metadata.quality <= q

\* C1: after any sequence of _add_channels calls the store holds exactly one
\* record per ingested identity, an ingested record of that identity, and
\* its quality is the maximum quality ingested with that identity.
C1_DedupInvariant ==
    /\ DictKeys(channels) = IngestedIds
    /\ Len(channels) = Cardinality(IngestedIds)
    /\ \A k \in IngestedIds :
          /\ DictGet(channels, k).id = k
          /\ \E i \in PlacesOf(k) : DictGet(channels, k) = ingested[i]
          /\ DictGet(channels, k).metadata.quality = MaxQualityOf(k)

\* C1's case: one identity ingested with a higher quality first and a lower
\* one after it, next to a second identity.
C1_Witness ==
    /\ Cardinality(IngestedIds) = 2
    /\ \E i, j \in DOMAIN ingested :
          /\ i < j
          /\ ingested[i].id = ingested[j].id
          /\ ingested[i].metadata.quality > ingested[j].metadata.quality
          /\ DictGet(channels, ingested[i].id) = ingested[i]

Perms(n) == {f \in [1..n -> 1..n] : \A i, j \in 1..n : f[i] = f[j] => i = j}
PairwiseDifferentQuality ==
    \A i, j \in DOMAIN ingested :
        (i # j /\ ingested[i].id = ingested[j].id)
            => ingested[i].metadata.quality # ingested[j].metadata.quality

\* C2: when the ingested records that share an identity have pairwise
\* different quality, adding them in any other order gives the same
\* identity-to-record mapping.
C2_OrderIndependent ==
    PairwiseDifferentQuality =>
        \A f \in Perms(Len(ingested)) :
            DictMap(add_channels(EmptyDict, [i \in DOMAIN ingested |-> ingested[f[i]]]))
                = DictMap(channels)

\* C2's case: the same url ingested with quality 1 and then with quality
\* MaxQuality, or the other way round, and the store holds the
\* MaxQuality record only.
C2_Witness ==
    /\ Len(ingested) = 2
    /\ ingested[1].id = ingested[2].id
    /\ {ingested[1].metadata.quality, ingested[2].metadata.quality} = {1, MaxQuality}
    /\ ingested[1].metadata.quality = MaxQuality
    /\ Len(channels) = 1
    /\ channels[1][2].metadata.quality = MaxQuality

\* the place of the first ingested record of identity k with the maximum quality
FirstMaxPlace(k) ==
    CHOOSE i \in PlacesOf(k) :
        /\ ingested[i].metadata.quality = MaxQualityOf(k)
        /\ \A j \in PlacesOf(k) :
              ingested[j].metadata.quality = MaxQualityOf(k) => i <= j

\* C3: a record of equal or lesser quality never replaces the stored one and
\* one of strictly greater quality replaces it whole: the stored record of an
\* identity is, field for field, the first ingested record among those of
\* maximum quality.
C3_FirstOfMaxKept ==
    \A k \in IngestedIds : DictGet(channels, k) = ingested[FirstMaxPlace(k)]

\* C3's case: two different records of one identity tie at the maximum
\* quality after a lesser one was replaced, and the first of the two is stored.
C3_Witness ==
    /\ Len(ingested) = 3
    /\ ingested[1].id = ingested[2].id /\ ingested[2].id = ingested[3].id
    /\ ingested[1].metadata.quality < ingested[2].metadata.quality
    /\ ingested[2].metadata.quality = ingested[3].metadata.quality
    /\ ingested[2] # ingested[3]
    /\ DictGet(channels, ingested[1].id) = ingested[2]

----------------------------------------------------------------------------
(* The EPG index: claims C4, C5, C6, C7 (under SpecEpg).                   *)

\* how often provider p was requested in a call
Fetches(call, p) == Cardinality({i \in DOMAIN call.fetched : call.fetched[i] = p})
Called(call) == call.gate # "none"
\* the call passed the gate and ran to its end
Refreshed(call) == call.gate = "open" /\ call.raised = ""

\* C4 as claimed: two update_epg calls less than ttl apart request each
\* provider at most once in total, and a call made when ttl has passed since
\* the previous refresh requests every provider exactly once.
C4_CacheFreshness ==
    /\ (Called(prevCall) /\ Called(lastCall) /\ lastCall.t - prevCall.t < TtlTicks)
          => \A p \in Range(ProviderList) :
                 Fetches(prevCall, p) + Fetches(lastCall, p) <= 1
    /\ (Called(lastCall) /\ Refreshed(prevCall)
            /\ lastCall.lu_before = prevCall.t
            /\ lastCall.t - lastCall.lu_before >= TtlTicks)
          => \A p \in Range(ProviderList) : Fetches(lastCall, p) = 1

\* the ids whose entry in the index came from provider p in the refresh call
ContributedBy(call, p) ==
    {k \in UNION {DictKeys(call.parsed[i][2]) : i \in DOMAIN call.parsed} :
        \E i \in DOMAIN call.parsed :
            /\ call.parsed[i][1] = p
            /\ DictHas(call.parsed[i][2], k)
            /\ IF CONFIG.output.epg_strategy = "merge"
               THEN \A j \in DOMAIN call.parsed :
                        j > i => ~DictHas(call.parsed[j][2], k)
               ELSE i = Len(call.parsed)}

\* the place of provider p in the configured list
PlaceOf(p) == CHOOSE i \in DOMAIN ProviderList : ProviderList[i] = p

\* C5 as claimed: when the request to a provider fails during an update_epg
\* call, that failure raises nothing (the call goes on past the provider) and
\* the index entries of the ids that provider had contributed are after the
\* call what they were before it.
C5_FailurePreservesIndex ==
    (lastCall.gate = "open" /\ Refreshed(prevCall))
        => \A p \in lastCall.failed :
              /\ lastCall.reached > PlaceOf(p) \/ lastCall.raised = ""
              /\ \A k \in ContributedBy(prevCall, p) :
                    /\ DictHas(epg_data, k)
                    /\ DictGet(epg_data, k) = DictGet(lastCall.before, k)

\* C6 as claimed: whatever fails at a provider, an update_epg call that
\* passed the gate completes normally, has gone through every configured
\* provider, and (under "merge") leaves in the index the ids of every provider
\* it parsed.
C6_ProviderIsolation ==
    lastCall.gate = "open"
        => /\ lastCall.raised = ""
           /\ lastCall.reached = Len(ProviderList)
           /\ CONFIG.output.epg_strategy = "merge"
                 => \A i \in DOMAIN lastCall.parsed :
                        DictKeys(lastCall.parsed[i][2]) \subseteq DictKeys(epg_data)

\* the place in the call's parsed providers of the last one declaring id k
LastDeclaring(call, k) ==
    CHOOSE i \in DOMAIN call.parsed :
        /\ DictHas(call.parsed[i][2], k)
        /\ \A j \in DOMAIN call.parsed : DictHas(call.parsed[j][2], k) => j <= i

----------------------------------------------------------------------------
(* The EPG matcher: claims C8, C9, C10 (under SpecMatch).                  *)

\* the channel of the latest match_channel call carries a string under key
CarriesStr(key) == DictHas(match_arg, key) /\ DictGet(match_arg, key).t = "str"
StrOf(key) == DictGet(match_arg, key).v
Returned(entry) ==
    match_res.raised = "" /\ match_res.found /\ match_res.value = entry

\* C8: when the tvg-id of the channel is a key of the index, match_channel
\* returns the entry under that key, fuzzy matching enabled or not, whatever
\* the display names of the entries.
C8_ExactTvgId ==
    (match_res.called /\ CarriesStr("tvg-id") /\ DictHas(epg_data, StrOf("tvg-id")))
        => Returned(DictGet(epg_data, StrOf("tvg-id")))

\* C8's case: fuzzy matching is enabled, the tvg-id is the key of the second
\* entry of the index while a display name of the first entry is similar to
\* it, the channel carries another identifier that is a key too, and the
\* entry under the tvg-id was returned.
C8_Witness ==
    /\ match_res.called
    /\ CONFIG.matching.fuzzy_match
    /\ Len(epg_data) = 2
    /\ CarriesStr("tvg-id") /\ StrOf("tvg-id") = epg_data[2][1]
    /\ DictHas(epg_data[1][2], "display_names")
    /\ \E nm \in Range(DictGet(epg_data[1][2], "display_names")) :
          similar(DictGet(match_arg, "tvg-id"), nm).value
    /\ Returned(epg_data[2][2])
    /\ epg_data[1][2] # epg_data[2][2]

\* the identifier kinds in the order claimed, by the key under which a
\* channel dict carries them (lines 126-128, 219-220)
ClaimedKinds == <<"tvg-id", "tvg-name", "name">>
\* the channel carries a non-empty value of the i-th kind that is verbatim a
\* key of the index
ExactHit(i) ==
    /\ CarriesStr(ClaimedKinds[i])
    /\ StrOf(ClaimedKinds[i]) # <<>>
    /\ DictHas(epg_data, StrOf(ClaimedKinds[i]))

\* C9 as claimed: match_channel returns the entry keyed by the first of
\* tvg-id, tvg-name, display name of which the channel carries a non-empty
\* value that is a key of the index, fuzzy matching enabled or not.
C9_ExactPriority ==
    match_res.called =>
        \A i \in DOMAIN ClaimedKinds :
            (ExactHit(i) /\ \A j \in 1..(i - 1) : ~ExactHit(j))
                => Returned(DictGet(epg_data, StrOf(ClaimedKinds[i])))

\* normalization as claimed: lower-case, everything but letters and digits
\* stripped
IsAlnum(c) == c \in Range(UpperCase) \cup Range(LowerCase) \cup Digits
ClaimedNorm(x) == SelectSeq(lower(x), IsAlnum)
\* the non-empty strings among the identifier candidates of the channel
Candidates ==
    {c.v : c \in {x \in Range(identifiers_of(match_arg)) : x.t = "str" /\ x.v # <<>>}}
\* the i-th entry of the index has a display name that, normalized, contains
\* or is contained in a normalized candidate
AliasMatches(i) ==
    /\ DictHas(epg_data[i][2], "display_names")
    /\ \E nm \in Range(DictGet(epg_data[i][2], "display_names")) :
          \E c \in Candidates :
              \/ Contains(ClaimedNorm(nm), ClaimedNorm(c))
              \/ Contains(ClaimedNorm(c), ClaimedNorm(nm))

\* C10 as claimed: when the exact tier misses and fuzzy matching is enabled,
\* match_channel returns the first entry, in the order of the index, with a
\* display name matching a candidate, and None when there is none.
C10_FuzzyTier ==
    (/\ match_res.called
     /\ CONFIG.matching.fuzzy_match
     /\ \A i \in DOMAIN ClaimedKinds : ~ExactHit(i))
        => IF \E i \in DOMAIN epg_data : AliasMatches(i)
           THEN Returned(epg_data[CHOOSE i \in DOMAIN epg_data :
                                      /\ AliasMatches(i)
                                      /\ \A j \in 1..(i - 1) : ~AliasMatches(j)][2])
           ELSE match_res.raised = "" /\ ~match_res.found

----------------------------------------------------------------------------
(* The playlist parser: claims C11, C12, C18 (under SpecParse).            *)

\* the value record r carries under the claimed field: the code names the
\* fields name, category, title and url
FieldOf(r, field) ==
    LET key == CASE field = "tvgId" -> "tvg-id"
                 [] field = "tvgName" -> "name"
                 [] field = "tvgLogo" -> "tvg-logo"
                 [] field = "group" -> "category"
                 [] field = "displayName" -> "title"
                 [] field = "streamUrl" -> "url"
                 [] OTHER -> field
    IN IF DictHas(r, key) THEN SomeEpg(DictGet(r, key)) ELSE NoEpg

\* C11 as claimed: for every playlist text parse returns without raising,
\* and every record it returns has a stream url that is not empty.
C11_ParserSafety ==
    parse_res.called
        => /\ parse_res.raised = ""
           /\ \A k \in DOMAIN parse_res.value :
                  /\ FieldOf(parse_res.value[k], "streamUrl").found
                  /\ FieldOf(parse_res.value[k], "streamUrl").value # <<>>

\* a metadata line: an #EXTINF line with the required group-title
IsMetadata(ln) ==
    ln.kind = "extinf" /\ \E j \in DOMAIN ln.attrs : ln.attrs[j][1] = "group-title"
\* a locator line: not a comment, not empty
IsLocator(ln) == ln.kind = "other" /\ ln.text # <<>>
\* the value of attribute key on the line, the empty string when it has none
AttrOr(ln, key) == DictGetOr(ln.attrs, key, <<>>)
\* record r carries the fields of metadata line m and the locator of line l
Carries(r, m, l) ==
    /\ FieldOf(r, "tvgId") = SomeEpg(AttrOr(m, "tvg-id"))
    /\ FieldOf(r, "tvgName") = SomeEpg(AttrOr(m, "tvg-name"))
    /\ FieldOf(r, "tvgLogo") = SomeEpg(AttrOr(m, "tvg-logo"))
    /\ FieldOf(r, "group") = SomeEpg(AttrOr(m, "group-title"))
    /\ FieldOf(r, "displayName") = SomeEpg(strip(m.title))
    /\ FieldOf(r, "streamUrl") = SomeEpg(strip(l.text))

\* C12 as claimed: a metadata line that lacks tvg-id, tvg-name or tvg-logo,
\* followed by a locator line, yields exactly one record; the record carries
\* the attributes the line has, the empty string for those it lacks, and
\* the locator.
C12_OptionalAttributes ==
    (/\ parse_res.called
     /\ Len(playlist) = 2
     /\ IsMetadata(playlist[1])
     /\ \E key \in {"tvg-id", "tvg-name", "tvg-logo"} :
            ~DictHas(playlist[1].attrs, key)
     /\ IsLocator(playlist[2]))
        => /\ parse_res.raised = ""
           /\ Len(parse_res.value) = 1
           /\ Carries(parse_res.value[1], playlist[1], playlist[2])

\* a record with every optional field empty and the group defaulted
CarriesDefaults(r, l) ==
    /\ FieldOf(r, "tvgId") = SomeEpg(<<>>)
    /\ FieldOf(r, "tvgName") = SomeEpg(<<>>)
    /\ FieldOf(r, "tvgLogo") = SomeEpg(<<>>)
    /\ FieldOf(r, "group") = SomeEpg(DefaultGroup)
    /\ FieldOf(r, "streamUrl") = SomeEpg(strip(l.text))

\* C18 as claimed: a locator line with no metadata line before it yields one
\* record with the optional fields empty and the default group; several
\* metadata lines before one locator line yield exactly one record, with the
\* fields of the last of them.
C18_PendingDescriptor ==
    /\ (parse_res.called /\ Len(playlist) = 1 /\ IsLocator(playlist[1]))
          => /\ parse_res.raised = ""
             /\ Len(parse_res.value) = 1
             /\ CarriesDefaults(parse_res.value[1], playlist[1])
    /\ (/\ parse_res.called
        /\ Len(playlist) = 3
        /\ IsMetadata(playlist[1]) /\ IsMetadata(playlist[2])
        /\ IsLocator(playlist[3]))
          => /\ parse_res.raised = ""
             /\ Len(parse_res.value) = 1
             /\ Carries(parse_res.value[1], playlist[2], playlist[3])

----------------------------------------------------------------------------
(* EPG parsing and the cache: claims C16, C17, C19, C20 (under SpecEpg).   *)

\* the document without the programmes whose start or stop is not in the
\* format
WellFormed(pr) == pr.start.wf /\ pr.stop.wf
WithoutMalformed(doc) ==
    [doc EXCEPT !.programmes = SelectSeq(@, WellFormed)]
HasMalformed(doc) == \E i \in DOMAIN doc.programmes : ~WellFormed(doc.programmes[i])
\* provider p's cache file held, at time t, a document young enough to be
\* what a call at t parsed
ParsedFile(p, t) ==
    /\ cache[p].exists
    /\ ~cache[p].corrupt
    /\ t - cache[p].mtime < CONFIG.epg.cache_ttl

\* C16 as claimed: when a programme of a provider's document has a start or
\* stop that does not parse, update_epg raises nothing for it, and what the
\* provider gives the index is the document's channel declarations and its
\* other programmes.
C16_ProgrammeIsolation ==
    lastCall.gate = "open"
        => \A i \in 1..lastCall.reached :
              LET p == ProviderList[i] IN
              (ParsedFile(p, lastCall.t) /\ HasMalformed(cache[p].doc))
                  => /\ lastCall.raised # "ValueError"
                     /\ \E k \in DOMAIN lastCall.parsed :
                           lastCall.parsed[k] =
                               <<p, parse_epg(WithoutMalformed(cache[p].doc)).value>>

\* the instant of a start as _parse_epg stores it
StartOf(item) == item.start[2] - item.start[3]
Ascending(progs) ==
    \A i, j \in DOMAIN progs : i < j => StartOf(progs[i]) <= StartOf(progs[j])

\* C17 as claimed: in every entry of the index the programmes are in
\* ascending order of start, whatever the order of the programme elements in
\* the provider's document.
C17_ProgrammesAscending ==
    \A i \in DOMAIN epg_data :
        DictHas(epg_data[i][2], "programmes")
            => Ascending(DictGet(epg_data[i][2], "programmes"))

\* the cache entry of provider p is absent or stale at time t
StaleOrAbsent(p, t) ==
    ~cache[p].exists \/ t - cache[p].mtime >= CONFIG.epg.cache_ttl

\* C19 as claimed: a provider whose cache entry is absent or stale when
\* update_epg is called is requested during that call. Stated for the calls
\* that raise nothing.
C19_LazyInvalidation ==
    [][(ncalls' = ncalls + 1 /\ lastCall'.raised = "")
          => \A p \in Range(ProviderList) :
                 StaleOrAbsent(p, now) => Fetches(lastCall', p) >= 1]_vars

\* the merge result of the call alone: its parsed providers, in order, merged
\* from an empty index
RECURSIVE MergeOf(_, _)
MergeOf(parsed, k) ==
    IF k = 0 THEN EmptyDict
    ELSE merge_provider(CONFIG, MergeOf(parsed, k - 1), parsed[k][2])

\* C20 as claimed: every update_epg call that passes the gate leaves the
\* index equal to the merge result of that call alone and last_update equal
\* to the time of the call; after a call in which every provider failed, a
\* call less than ttl later requests nothing and the index is empty.
C20_GateAndRebuild ==
    /\ lastCall.gate = "open"
          => /\ epg_data = MergeOf(lastCall.parsed, Len(lastCall.parsed))
             /\ last_update = lastCall.t
    /\ (/\ prevCall.gate = "open"
        /\ prevCall.parsed = <<>>
        /\ Called(lastCall)
        /\ lastCall.t - prevCall.t < TtlTicks)
          => /\ lastCall.fetched = <<>>
             /\ epg_data = EmptyDict

----------------------------------------------------------------------------
(* The pipeline: claims C13, C14, C15 (under SpecProcess).                 *)

\* the stages of process() after the executor's with block
AfterFanout == {"epg", "match", "output", "done"}
\* the request of the future's source failed: an exception, or a status
\* that is not ok
SourceFailed(f) == f.state # "running" /\ f.outcome \in {"error", "status"}

\* C13 as claimed: a source whose request fails contributes no record, the
\* other sources are still processed before the EPG stage, and a run that
\* has submitted its sources is never aborted: it goes on to the EPG and
\* output stages.
C13_SourceIsolation ==
    /\ \A i \in DOMAIN futures : SourceFailed(futures[i]) => futures[i].result = <<>>
    /\ pc \in AfterFanout => joined(futures)
    /\ pc = "raised" => futures = <<>>

\* every record a finished worker returned has been handed to _add_channels
AllAdded ==
    \A i \in DOMAIN futures :
        /\ futures[i].state = "taken"
        /\ \A k \in DOMAIN futures[i].result :
               \E j \in DOMAIN ingested : ingested[j] = futures[i].result[k]
\* _match_epg has run over every channel of the store: each carries what
\* match_channel gives for it on the index
AllMatched ==
    \A i \in DOMAIN channels :
        LET r == match_channel(CONFIG, epg_data, match_epg_arg(channels[i][2]))
        IN /\ r.raised = ""
           /\ channels[i][2].epg = IF r.found THEN SomeEpg(r.value) ELSE NoEpg

\* C14: update_epg and _match_epg start only when every worker has finished
\* and its records have been added to the store; the outputs are written
\* only when _match_epg has run over every stored channel; from the start of
\* matching on no channel is added to the store.
C14_StageOrdering ==
    /\ [](/\ (pc \in AfterFanout \/ ncalls > 0 \/ match_res.called) => AllAdded
          /\ pc \in {"output", "done"} => AllMatched)
    /\ [][(pc \in {"match", "output", "done"})
             => (DictKeys(channels') = DictKeys(channels) /\ ingested' = ingested)]_vars

\* C14's case: a run reached its end with two channels in the store, one of
\* them matched to an entry of the index, after one source had failed.
C14_Witness ==
    /\ pc = "done"
    /\ Len(channels) = 2
    /\ \E i \in DOMAIN channels : channels[i][2].epg.found
    /\ \E i \in DOMAIN futures : SourceFailed(futures[i])

\* C15: whatever the order in which the workers finish and their results are
\* handed over, once a result has been handed over the store has every
\* identity of it, with a quality not below that of the returned record.
C15_NoLostUpdate ==
    \A i \in DOMAIN futures :
        futures[i].state = "taken"
            => \A k \in DOMAIN futures[i].result :
                  LET chan == futures[i].result[k] IN
                  /\ DictHas(channels, chan.id)
                  /\ DictGet(channels, chan.id).metadata.quality
                         >= chan.metadata.quality

\* C15's case: two workers returned the same identity with different
\* qualities, one of them in a list of two channels, and the better one was
\* handed over first.
C15_Witness ==
    /\ joined(futures)
    /\ \E i, j \in DOMAIN ingested :
          /\ i < j
          /\ ingested[i].id = ingested[j].id
          /\ ingested[i].metadata.quality > ingested[j].metadata.quality
    /\ \E i \in DOMAIN futures : Len(futures[i].result) = 2
    /\ \A i \in DOMAIN futures : futures[i].result # <<>>
====
